---- MODULE Spec2Model ----
(***************************************************************************)
(* FerreApp API (src/app/main.py): the pydantic contracts of a product,    *)
(* the raw-row adapter and the five request handlers, run concurrently     *)
(* against a store whose calls are atomic.                                 *)
(*                                                                         *)
(* Text values are sequences of one-character strings.  The character      *)
(* "sz" stands for U+00DF (sharp s), whose str.upper() is the two          *)
(* characters "SS".  Prices are integers (a fixed unit of the float).      *)
(***************************************************************************)
EXTENDS Integers, Sequences, FiniteSets, TLC

(***************************************************************************)
(* Bounds of the model.                                                    *)
(***************************************************************************)
NumReq == 2           \* concurrent requests
MaxProductoId == 2    \* path ids a request may name: 1..MaxProductoId
MaxPad == 1           \* whitespace put around a text input

(***************************************************************************)
(* Field(...) constraints of ProductoBase.                                 *)
(***************************************************************************)
MinLenTexto == 1
MaxLenNombre == 80
MaxLenDescripcion == 255
MaxLenCategoria == 50
MaxLenSku == 20
MinNumero == 0

(***************************************************************************)
(* Python values.                                                          *)
(***************************************************************************)
NoneVal == <<"None">>            \* None (SQL NULL); never a text value
Whitespace == {" "}

\* c * n
Rep(c, n) == [i \in 1..n |-> c]

Pad(l, s, t) == Rep(" ", l) \o s \o Rep(" ", t)

RECURSIVE LStrip(_)
LStrip(s) ==
    IF s = <<>> THEN s
    ELSE IF Head(s) \in Whitespace THEN LStrip(Tail(s)) ELSE s

RECURSIVE RStrip(_)
RStrip(s) ==
    IF s = <<>> THEN s
    ELSE IF s[Len(s)] \in Whitespace THEN RStrip(SubSeq(s, 1, Len(s) - 1)) ELSE s

\* str.strip()
Strip(s) == RStrip(LStrip(s))

\* the upper-case mapping of one character (full case mapping: U+00DF -> "SS")
UpperChar(c) ==
    CASE c = "a" -> <<"A">>
      [] c = "b" -> <<"B">>
      [] c = "sz" -> <<"S", "S">>
      [] OTHER -> <<c>>

RECURSIVE Upper(_)
\* str.upper()
Upper(s) == IF s = <<>> THEN <<>> ELSE UpperChar(Head(s)) \o Upper(Tail(s))

\* bool(x) of a raw column value
Bool(x) == x # 0

(***************************************************************************)
(* ProductoBase: the constraints of the annotated types run first, on the  *)
(* value as given; the field validators run after them.                    *)
(***************************************************************************)
Err == [ok |-> FALSE]
Ok(v) == [ok |-> TRUE, val |-> v]

\* Annotated[str, Field(min_length=lo, max_length=hi)]
StrField(v, lo, hi) == v # NoneVal /\ Len(v) >= lo /\ Len(v) <= hi

\* mutant: the validator tests only "not v"
validar_nombre_categoria_nostrip(v) ==
    IF v = <<>> THEN Err ELSE Ok(Strip(v))

validar_nombre_categoria(v) ==
    IF v = <<>> \/ Strip(v) = <<>> THEN Err ELSE Ok(Strip(v))

\* mutant: the validator forgets upper()
validar_codigo_sku_noupper(v) ==
    LET u == Strip(v) IN IF u = <<>> THEN Err ELSE Ok(u)

validar_codigo_sku(v) ==
    LET u == Upper(Strip(v)) IN IF u = <<>> THEN Err ELSE Ok(u)

validar_descripcion(v) ==
    IF v = NoneVal THEN NoneVal
    ELSE IF Strip(v) = <<>> THEN NoneVal ELSE Strip(v)

\* mutant: the length limits of nombre applied to the trimmed value
FieldNombre_trimmed(v) ==
    IF v # NoneVal /\ StrField(Strip(v), MinLenTexto, MaxLenNombre)
    THEN validar_nombre_categoria(v) ELSE Err

FieldNombre(v) ==
    IF StrField(v, MinLenTexto, MaxLenNombre) THEN validar_nombre_categoria(v) ELSE Err

FieldCategoria(v) ==
    IF StrField(v, MinLenTexto, MaxLenCategoria) THEN validar_nombre_categoria(v) ELSE Err

FieldSku(v) ==
    IF StrField(v, MinLenTexto, MaxLenSku) THEN validar_codigo_sku(v) ELSE Err

\* Optional[Annotated[str, Field(max_length=255)]] = None
FieldDescripcion(v) ==
    IF v = NoneVal THEN Ok(validar_descripcion(v))
    ELSE IF Len(v) <= MaxLenDescripcion THEN Ok(validar_descripcion(v)) ELSE Err

\* Field(ge=0)
FieldNumero(v) == IF v >= MinNumero THEN Ok(v) ELSE Err

Required == {"nombre", "precio", "stock", "categoria", "codigo_sku"}

\* ProductoBase(**data): data maps the keys present to their values
ProductoBase(data) ==
    IF ~(Required \subseteq DOMAIN data) THEN Err
    ELSE
      LET n == FieldNombre(data.nombre)
          d == IF "descripcion" \in DOMAIN data
               THEN FieldDescripcion(data.descripcion) ELSE Ok(NoneVal)
          p == FieldNumero(data.precio)
          s == FieldNumero(data.stock)
          c == FieldCategoria(data.categoria)
          k == FieldSku(data.codigo_sku)
          a == IF "activo" \in DOMAIN data THEN data.activo ELSE TRUE
      IN IF n.ok /\ d.ok /\ p.ok /\ s.ok /\ c.ok /\ k.ok
         THEN Ok([nombre |-> n.val, descripcion |-> d.val, precio |-> p.val,
                  stock |-> s.val, categoria |-> c.val, codigo_sku |-> k.val,
                  activo |-> a])
         ELSE Err

\* Producto(**data): ProductoBase plus id_producto
Producto(data) ==
    LET b == ProductoBase(data)
    IN IF "id_producto" \in DOMAIN data /\ b.ok
       THEN Ok([id_producto |-> data.id_producto, nombre |-> b.val.nombre,
                descripcion |-> b.val.descripcion, precio |-> b.val.precio,
                stock |-> b.val.stock, categoria |-> b.val.categoria,
                codigo_sku |-> b.val.codigo_sku, activo |-> b.val.activo])
       ELSE Err

\* ProductoDB(**data): types only, no content rule
ProductoDB(data) ==
    IF {"id_producto", "nombre", "precio", "stock", "categoria", "codigo_sku",
        "activo"} \subseteq DOMAIN data
       /\ data.nombre # NoneVal /\ data.categoria # NoneVal
       /\ data.codigo_sku # NoneVal
    THEN Ok([id_producto |-> data.id_producto, nombre |-> data.nombre,
             descripcion |-> IF "descripcion" \in DOMAIN data
                             THEN data.descripcion ELSE NoneVal,
             precio |-> data.precio, stock |-> data.stock,
             categoria |-> data.categoria, codigo_sku |-> data.codigo_sku,
             activo |-> data.activo])
    ELSE Err

(***************************************************************************)
(* State.  db and next_id are the store (table producto and its            *)
(* AUTO_INCREMENT); the rest is one record per request in flight.          *)
(***************************************************************************)
VARIABLES
    db,           \* id -> stored row, the ids present only
    next_id,      \* the id the next insert assigns
    pc,           \* each request's position in its handler
    kind,         \* each request's endpoint
    producto_id,  \* each request's path parameter (0: none)
    body,         \* each request's JSON body (empty: none)
    nuevo_id,     \* crear_producto's local nuevo_id
    resp,         \* each request's response (status 0: none yet)
    calls         \* each request's store calls so far, with what they returned

vars == <<db, next_id, pc, kind, producto_id, body, nuevo_id, resp, calls>>

Reqs == 1..NumReq
PathIds == 1..MaxProductoId

(***************************************************************************)
(* The store (app.database), one atomic step per call.                     *)
(***************************************************************************)
NoRow == [k \in {} |-> 0]

\* the row the table keeps for the fields written: precio DECIMAL, activo TINYINT
StoreRow(id, f) ==
    [id_producto |-> id, nombre |-> f.nombre, descripcion |-> f.descripcion,
     precio |-> [type |-> "Decimal", val |-> f.precio], stock |-> f.stock,
     categoria |-> f.categoria, codigo_sku |-> f.codigo_sku,
     activo |-> IF f.activo THEN 1 ELSE 0]

fetch_producto_by_id(id) == IF id \in DOMAIN db THEN db[id] ELSE NoRow

RECURSIVE RowsFrom(_, _)
RowsFrom(i, last) ==
    IF i > last THEN <<>>
    ELSE (IF i \in DOMAIN db THEN <<db[i]>> ELSE <<>>) \o RowsFrom(i + 1, last)

\* SELECT * FROM producto, in id order
fetch_all_productos == RowsFrom(1, next_id - 1)

\* the table after a successful INSERT / UPDATE / DELETE
insert_producto(f) == [i \in DOMAIN db \cup {next_id} |->
                         IF i = next_id THEN StoreRow(next_id, f) ELSE db[i]]

update_producto(id, f) == [db EXCEPT ![id] = StoreRow(id, f)]

delete_producto(id) == [i \in DOMAIN db \ {id} |-> db[i]]

(***************************************************************************)
(* Raw row adapter and the response_model of the endpoints.                *)
(***************************************************************************)
ToFloat(x) == [type |-> "float", val |-> x.val]

\* the body of the loop of map_rows_to_productos, for one row
MapRow(row) ==
    LET d1 == IF row.precio.type = "Decimal"
              THEN [row EXCEPT !.precio = ToFloat(row.precio)] ELSE row
        d2 == [d1 EXCEPT !.activo = Bool(d1.activo)]
    IN ProductoDB([d2 EXCEPT !.precio = d2.precio.val])

map_rows_to_productos(rows) ==
    LET m == [i \in 1..Len(rows) |-> MapRow(rows[i])]
    IN IF \E i \in 1..Len(rows) : ~m[i].ok THEN Err
       ELSE Ok([i \in 1..Len(rows) |-> m[i].val])

NoResp == [status |-> 0, detail |-> <<>>, content |-> <<>>]

HTTPException(code, msg) == [status |-> code, detail |-> msg, content |-> <<>>]

\* an exception no handler catches
InternalServerError == HTTPException(500, <<"Internal Server Error">>)

\* request validation failed before the handler ran
UnprocessableEntity == HTTPException(422, <<"validation error">>)

NotFound(id) ==
    HTTPException(404, <<"Producto con ID ", ToString(id), " no encontrado">>)

\* mutant: the endpoints declare no response_model
ResponseModel_unvalidated(code, rows) ==
    LET dbs == map_rows_to_productos(rows)
    IN IF ~dbs.ok THEN InternalServerError
       ELSE [status |-> code, detail |-> <<>>, content |-> dbs.val]

\* return map_rows_to_productos(rows) under response_model=Producto (or a list)
ResponseModel(code, rows) ==
    LET dbs == map_rows_to_productos(rows)
    IN IF ~dbs.ok THEN InternalServerError
       ELSE LET out == [i \in 1..Len(rows) |-> Producto(dbs.val[i])]
            IN IF \E i \in 1..Len(rows) : ~out[i].ok THEN InternalServerError
               ELSE [status |-> code, detail |-> <<>>,
                     content |-> [i \in 1..Len(rows) |-> out[i].val]]

\* one store call: the function, what it returned, whether its row was there
Call(fn, ret, found) == [fn |-> fn, ret |-> ret, found |-> found]

\* the request ends with response x
Respond(r, x) ==
    /\ resp' = [resp EXCEPT ![r] = x]
    /\ pc' = [pc EXCEPT ![r] = "done"]

Log(r, fn, ret, found) ==
    calls' = [calls EXCEPT ![r] = Append(@, Call(fn, ret, found))]

\* the validated body the handler receives
producto(r) == ProductoBase(body[r]).val

(***************************************************************************)
(* Request validation and the handlers.                                    *)
(***************************************************************************)
HasBody(k) == k \in {"crear", "actualizar"}

\* the body parameter is validated before the handler is entered
ValidarBody(r) ==
    /\ pc[r] = "validate"
    /\ IF ProductoBase(body[r]).ok
       THEN /\ pc' = [pc EXCEPT ![r] = "handler"]
            /\ resp' = resp
       ELSE Respond(r, UnprocessableEntity)
    /\ UNCHANGED <<db, next_id, kind, producto_id, body, nuevo_id, calls>>

ping(r) ==
    /\ pc[r] = "handler" /\ kind[r] = "ping"
    /\ Respond(r, [status |-> 200, detail |-> <<>>,
                   content |-> <<[message |-> "pong"]>>])
    /\ UNCHANGED <<db, next_id, kind, producto_id, body, nuevo_id, calls>>

listar_productos(r) ==
    /\ pc[r] = "handler" /\ kind[r] = "listar"
    /\ Log(r, "fetch_all_productos", "rows", TRUE)
    /\ Respond(r, ResponseModel(200, fetch_all_productos))
    /\ UNCHANGED <<db, next_id, kind, producto_id, body, nuevo_id>>

obtener_producto(r) ==
    /\ pc[r] = "handler" /\ kind[r] = "obtener"
    /\ LET row == fetch_producto_by_id(producto_id[r])
       IN /\ Log(r, "fetch_producto_by_id",
                 IF row = NoRow THEN "None" ELSE "row", row # NoRow)
          /\ IF row = NoRow
             THEN Respond(r, NotFound(producto_id[r]))
             ELSE Respond(r, ResponseModel(200, <<row>>))
    /\ UNCHANGED <<db, next_id, kind, producto_id, body, nuevo_id>>

\* mutant: nuevo_id is not tested
crear_insert_unchecked(r) ==
    /\ pc[r] = "handler" /\ kind[r] = "crear"
    /\ \E ok \in BOOLEAN :
         /\ db' = IF ok THEN insert_producto(producto(r)) ELSE db
         /\ next_id' = IF ok THEN next_id + 1 ELSE next_id
         /\ nuevo_id' = [nuevo_id EXCEPT ![r] = IF ok THEN next_id ELSE 0]
         /\ Log(r, "insert_producto", IF ok THEN "id" ELSE "0", TRUE)
         /\ pc' = [pc EXCEPT ![r] = "reread"]
         /\ resp' = resp
    /\ UNCHANGED <<kind, producto_id, body>>

\* crear_producto, steps 1 and 2: insert_producto and the test of nuevo_id
crear_insert(r) ==
    /\ pc[r] = "handler" /\ kind[r] = "crear"
    /\ \E ok \in BOOLEAN :
         IF ok
         THEN /\ db' = insert_producto(producto(r))
              /\ next_id' = next_id + 1
              /\ nuevo_id' = [nuevo_id EXCEPT ![r] = next_id]
              /\ Log(r, "insert_producto", "id", TRUE)
              /\ pc' = [pc EXCEPT ![r] = "reread"]
              /\ resp' = resp
         ELSE /\ Log(r, "insert_producto", "0", TRUE)
              /\ Respond(r, HTTPException(500,
                   <<"Error al insertar el producto en la base de datos">>))
              /\ UNCHANGED <<db, next_id, nuevo_id>>
    /\ UNCHANGED <<kind, producto_id, body>>

\* crear_producto, steps 3 and 4
crear_reread(r) ==
    /\ pc[r] = "reread" /\ kind[r] = "crear"
    /\ LET row == fetch_producto_by_id(nuevo_id[r])
       IN /\ Log(r, "fetch_producto_by_id",
                 IF row = NoRow THEN "None" ELSE "row", row # NoRow)
          /\ IF row = NoRow
             THEN Respond(r, HTTPException(500,
                    <<"Error al recuperar el producto recien creado">>))
             ELSE Respond(r, ResponseModel(201, <<row>>))
    /\ UNCHANGED <<db, next_id, kind, producto_id, body, nuevo_id>>

\* mutant: no existence check before the write
actualizar_check_nocheck(r) ==
    /\ pc[r] = "handler" /\ kind[r] = "actualizar"
    /\ LET row == fetch_producto_by_id(producto_id[r])
       IN /\ Log(r, "fetch_producto_by_id",
                 IF row = NoRow THEN "None" ELSE "row", row # NoRow)
          /\ pc' = [pc EXCEPT ![r] = "update"]
          /\ resp' = resp
    /\ UNCHANGED <<db, next_id, kind, producto_id, body, nuevo_id>>

\* actualizar_producto, step 1
actualizar_check(r) ==
    /\ pc[r] = "handler" /\ kind[r] = "actualizar"
    /\ LET row == fetch_producto_by_id(producto_id[r])
       IN /\ Log(r, "fetch_producto_by_id",
                 IF row = NoRow THEN "None" ELSE "row", row # NoRow)
          /\ IF row = NoRow
             THEN Respond(r, NotFound(producto_id[r]))
             ELSE /\ pc' = [pc EXCEPT ![r] = "update"]
                  /\ resp' = resp
    /\ UNCHANGED <<db, next_id, kind, producto_id, body, nuevo_id>>

\* actualizar_producto, steps 2 and 3: a row that is there is replaced unless
\* the store fails; on a row that is gone the call changes nothing and
\* reports either result
actualizar_update(r) ==
    /\ pc[r] = "update" /\ kind[r] = "actualizar"
    /\ \E actualizado \in BOOLEAN :
         LET found == producto_id[r] \in DOMAIN db
         IN /\ db' = IF actualizado /\ found
                     THEN update_producto(producto_id[r], producto(r)) ELSE db
            /\ Log(r, "update_producto",
                   IF actualizado THEN "True" ELSE "False", found)
            /\ IF ~actualizado
               THEN Respond(r, HTTPException(500,
                      <<"Error al actualizar el producto en la base de datos">>))
               ELSE /\ pc' = [pc EXCEPT ![r] = "reread"]
                    /\ resp' = resp
    /\ UNCHANGED <<next_id, kind, producto_id, body, nuevo_id>>

\* mutant: a re-read that finds no row answers not-found
actualizar_reread_404(r) ==
    /\ pc[r] = "reread" /\ kind[r] = "actualizar"
    /\ LET row == fetch_producto_by_id(producto_id[r])
       IN /\ Log(r, "fetch_producto_by_id",
                 IF row = NoRow THEN "None" ELSE "row", row # NoRow)
          /\ IF row = NoRow
             THEN Respond(r, NotFound(producto_id[r]))
             ELSE Respond(r, ResponseModel(200, <<row>>))
    /\ UNCHANGED <<db, next_id, kind, producto_id, body, nuevo_id>>

\* actualizar_producto, steps 4 and 5
actualizar_reread(r) ==
    /\ pc[r] = "reread" /\ kind[r] = "actualizar"
    /\ LET row == fetch_producto_by_id(producto_id[r])
       IN /\ Log(r, "fetch_producto_by_id",
                 IF row = NoRow THEN "None" ELSE "row", row # NoRow)
          /\ IF row = NoRow
             THEN Respond(r, HTTPException(500,
                    <<"Error al recuperar el producto actualizado">>))
             ELSE Respond(r, ResponseModel(200, <<row>>))
    /\ UNCHANGED <<db, next_id, kind, producto_id, body, nuevo_id>>

\* mutant: no existence check before the delete
eliminar_check_nocheck(r) ==
    /\ pc[r] = "handler" /\ kind[r] = "eliminar"
    /\ LET row == fetch_producto_by_id(producto_id[r])
       IN /\ Log(r, "fetch_producto_by_id",
                 IF row = NoRow THEN "None" ELSE "row", row # NoRow)
          /\ pc' = [pc EXCEPT ![r] = "delete"]
          /\ resp' = resp
    /\ UNCHANGED <<db, next_id, kind, producto_id, body, nuevo_id>>

\* eliminar_producto, step 1
eliminar_check(r) ==
    /\ pc[r] = "handler" /\ kind[r] = "eliminar"
    /\ LET row == fetch_producto_by_id(producto_id[r])
       IN /\ Log(r, "fetch_producto_by_id",
                 IF row = NoRow THEN "None" ELSE "row", row # NoRow)
          /\ IF row = NoRow
             THEN Respond(r, NotFound(producto_id[r]))
             ELSE /\ pc' = [pc EXCEPT ![r] = "delete"]
                  /\ resp' = resp
    /\ UNCHANGED <<db, next_id, kind, producto_id, body, nuevo_id>>

\* mutant: eliminado is not tested
eliminar_delete_unchecked(r) ==
    /\ pc[r] = "delete" /\ kind[r] = "eliminar"
    /\ LET found == producto_id[r] \in DOMAIN db
       IN \E eliminado \in (IF found THEN BOOLEAN ELSE {FALSE}) :
            /\ db' = IF eliminado THEN delete_producto(producto_id[r]) ELSE db
            /\ Log(r, "delete_producto",
                   IF eliminado THEN "True" ELSE "False", found)
            /\ Respond(r, [status |-> 200, detail |-> <<>>,
                      content |-> <<[mensaje |-> "Producto eliminado exitosamente",
                                     id_producto |-> producto_id[r]]>>])
    /\ UNCHANGED <<next_id, kind, producto_id, body, nuevo_id>>

\* eliminar_producto, steps 2 to 4: the call reports success only when it
\* removed the row
eliminar_delete(r) ==
    /\ pc[r] = "delete" /\ kind[r] = "eliminar"
    /\ LET found == producto_id[r] \in DOMAIN db
       IN \E eliminado \in (IF found THEN BOOLEAN ELSE {FALSE}) :
            /\ db' = IF eliminado THEN delete_producto(producto_id[r]) ELSE db
            /\ Log(r, "delete_producto",
                   IF eliminado THEN "True" ELSE "False", found)
            /\ IF ~eliminado
               THEN Respond(r, HTTPException(500,
                      <<"Error al eliminar el producto de la base de datos">>))
               ELSE Respond(r, [status |-> 200, detail |-> <<>>,
                      content |-> <<[mensaje |-> "Producto eliminado exitosamente",
                                     id_producto |-> producto_id[r]]>>])
    /\ UNCHANGED <<next_id, kind, producto_id, body, nuevo_id>>

Next ==
    \E r \in Reqs :
        \/ ValidarBody(r)
        \/ ping(r)
        \/ listar_productos(r)
        \/ obtener_producto(r)
        \/ crear_insert(r)
        \/ crear_reread(r)
        \/ actualizar_check(r)
        \/ actualizar_update(r)
        \/ actualizar_reread(r)
        \/ eliminar_check(r)
        \/ eliminar_delete(r)

(***************************************************************************)
(* Initial states: what the table holds and the requests that arrive.      *)
(***************************************************************************)
NoBody == [k \in {} |-> 0]

Without(b, key) == [k \in DOMAIN b \ {key} |-> b[k]]

\* the example payload of a create: every text field needs normalizing
BodyA ==
    [nombre |-> Pad(MaxPad, <<"a", "b">>, MaxPad), descripcion |-> <<" ">>,
     precio |-> 155, stock |-> 10, categoria |-> Pad(0, <<"b">>, MaxPad),
     codigo_sku |-> Pad(MaxPad, <<"a", "-", "1">>, MaxPad)]

\* a payload already in normal form
BodyB ==
    [nombre |-> <<"b">>, descripcion |-> <<"a", " ", "b">>, precio |-> 0,
     stock |-> 0, categoria |-> <<"a">>, codigo_sku |-> <<"B", "2">>,
     activo |-> FALSE]

\* a row written through the API
GoodRow ==
    StoreRow(1, [nombre |-> <<"a">>, descripcion |-> NoneVal, precio |-> 5,
                 stock |-> 1, categoria |-> <<"b">>, codigo_sku |-> <<"A", "0">>,
                 activo |-> TRUE])

\* rows written before the rules existed
LegacyRows ==
    { [GoodRow EXCEPT !.stock = -1],
      [GoodRow EXCEPT !.nombre = <<" ", "a">>, !.descripcion = <<" ">>,
                      !.codigo_sku = <<"a", "0">>,
                      !.precio = [type |-> "float", val |-> 5], !.activo = 2],
      [GoodRow EXCEPT !.nombre = NoneVal] }

InitialStores ==
    {NoRow} \cup {[i \in {1} |-> row] : row \in {GoodRow} \cup LegacyRows}

Bodies ==
    { BodyA, BodyB,
      [BodyA EXCEPT !.nombre = Rep(" ", MaxPad)],
      [BodyB EXCEPT !.codigo_sku = Rep("sz", (MaxLenSku \div 2) + 1)] }

Requests(bodies) ==
    [kind : {"ping", "listar"}, producto_id : {0}, body : {NoBody}]
    \cup [kind : {"obtener", "eliminar"}, producto_id : PathIds, body : {NoBody}]
    \cup [kind : {"crear"}, producto_id : {0}, body : bodies]
    \cup [kind : {"actualizar"}, producto_id : PathIds, body : bodies]

InitWith(store, reqs) ==
    /\ db = store
    /\ next_id = 2
    /\ kind = [r \in Reqs |-> reqs[r].kind]
    /\ producto_id = [r \in Reqs |-> reqs[r].producto_id]
    /\ body = [r \in Reqs |-> reqs[r].body]
    /\ pc = [r \in Reqs |-> IF HasBody(reqs[r].kind) THEN "validate" ELSE "handler"]
    /\ nuevo_id = [r \in Reqs |-> 0]
    /\ resp = [r \in Reqs |-> NoResp]
    /\ calls = [r \in Reqs |-> <<>>]

Init ==
    \E store \in InitialStores : \E reqs \in [Reqs -> Requests(Bodies)] :
        InitWith(store, reqs)

Spec == Init /\ [][Next]_vars

(***************************************************************************)
(* A second specification: one request against a table of one row, its     *)
(* body drawn from the inputs around every validation rule (the other      *)
(* requests are pings).                                                    *)
(***************************************************************************)
\* lengths around a limit
Around(lo, hi) == {0, lo, hi - 1, hi, hi + 1}

TextInputs(c, lens) ==
    {Pad(l, Rep(c, n), t) : l \in 0..MaxPad, n \in lens, t \in 0..MaxPad}

NombreInputs == TextInputs("a", Around(MinLenTexto, MaxLenNombre))
CategoriaInputs == TextInputs("b", Around(MinLenTexto, MaxLenCategoria))
DescripcionInputs ==
    TextInputs("a", Around(MinLenTexto, MaxLenDescripcion)) \cup {NoneVal}
SkuInputs ==
    TextInputs("a", Around(MinLenTexto, MaxLenSku))
    \cup TextInputs("sz", {MaxLenSku \div 2, (MaxLenSku \div 2) + 1})
NumeroInputs == {-1, 0, 1}

\* BodyB with one field replaced or left out
RichBodies ==
    {[BodyB EXCEPT !.nombre = v] : v \in NombreInputs}
    \cup {[BodyB EXCEPT !.categoria = v] : v \in CategoriaInputs}
    \cup {[BodyB EXCEPT !.descripcion = v] : v \in DescripcionInputs}
    \cup {[BodyB EXCEPT !.codigo_sku = v] : v \in SkuInputs}
    \cup {[BodyB EXCEPT !.precio = v] : v \in NumeroInputs}
    \cup {[BodyB EXCEPT !.stock = v] : v \in NumeroInputs}
    \cup {[BodyB EXCEPT !.activo = v] : v \in BOOLEAN}
    \cup {Without(BodyB, k) : k \in DOMAIN BodyB}
    \cup {BodyA}

InitVal ==
    \E r1 \in Requests(RichBodies) :
        InitWith([i \in {1} |-> GoodRow],
                 [r \in Reqs |-> IF r = 1 THEN r1
                                 ELSE [kind |-> "ping", producto_id |-> 0,
                                       body |-> NoBody]])

SpecVal == InitVal /\ [][Next]_vars

(***************************************************************************)
(* Vocabulary of the properties.                                           *)
(***************************************************************************)
Done(r) == pc[r] = "done"

Status(r) == resp[r].status

Range(seq) == {seq[i] : i \in 1..Len(seq)}

Called(r, fn) == \E i \in 1..Len(calls[r]) : calls[r][i].fn = fn

\* the request's first store call was the existence check and found no row
CheckFoundNothing(r) ==
    /\ Len(calls[r]) >= 1
    /\ calls[r][1].fn = "fetch_producto_by_id"
    /\ calls[r][1].ret = "None"

GenericMessages ==
    { <<"Error al insertar el producto en la base de datos">>,
      <<"Error al recuperar el producto recien creado">>,
      <<"Error al actualizar el producto en la base de datos">>,
      <<"Error al recuperar el producto actualizado">>,
      <<"Error al eliminar el producto de la base de datos">> }

WriteCalls == {"insert_producto", "update_producto", "delete_producto"}

\* C1: when the existence check of Get, Update or Delete finds no row, the
\* request ends at once with 404 and the id in its message, never 500, and
\* makes no other store call (no update_producto, no delete_producto).
C1_NotFound ==
    \A r \in Reqs :
        (kind[r] \in {"obtener", "actualizar", "eliminar"} /\ CheckFoundNothing(r))
        => /\ Done(r)
           /\ Status(r) = 404
           /\ ToString(producto_id[r]) \in Range(resp[r].detail)
           /\ Len(calls[r]) = 1
           /\ ~Called(r, "update_producto")
           /\ ~Called(r, "delete_producto")

C1_Witness ==
    \E r \in Reqs : \E q \in Reqs :
        /\ kind[r] = "actualizar" /\ CheckFoundNothing(r) /\ Status(r) = 404
        /\ kind[q] = "eliminar" /\ CheckFoundNothing(q) /\ Status(q) = 404

\* a text value that is empty or whitespace only
Blank(v) == \A i \in 1..Len(v) : v[i] \in Whitespace

\* the payload breaks one of the rules the claim lists
BreaksRule(b) ==
    \/ \E k \in {"nombre", "categoria", "codigo_sku"} :
          k \in DOMAIN b /\ Blank(b[k])
    \/ \E k \in {"precio", "stock"} : k \in DOMAIN b /\ b[k] < 0

\* C2: a Create or Update whose payload breaks a validation rule ends in 422
\* and makes no store call at all, so the table is as it was.
C2_InvalidNoStoreCall ==
    \A r \in Reqs :
        (HasBody(kind[r]) /\ BreaksRule(body[r]))
        => /\ calls[r] = <<>>
           /\ pc[r] \in {"validate", "done"}
           /\ Done(r) => Status(r) = 422
           /\ (\A q \in Reqs \ {r} : kind[q] = "ping") =>
                 (db = [i \in {1} |-> GoodRow] /\ next_id = 2)

C2_Witness ==
    \E r \in Reqs :
        /\ kind[r] = "actualizar" /\ producto_id[r] = 1
        /\ "codigo_sku" \in DOMAIN body[r]
        /\ Blank(body[r].codigo_sku) /\ Len(body[r].codigo_sku) > 0
        /\ Done(r) /\ Status(r) = 422

\* C7: in Create, Update and Delete a write call that reports failure is the
\* request's last store call and the request ends in 500 with one of the
\* fixed messages; a re-read that finds no row after a write that reported
\* success ends in 500 with a fixed message too.
C7_StoreFault ==
    \A r \in Reqs : \A i \in 1..Len(calls[r]) :
        LET c == calls[r][i]
            failedWrite == c.fn \in WriteCalls /\ c.ret \in {"0", "False"}
            lostReread == /\ i > 1
                          /\ calls[r][i - 1].fn \in WriteCalls
                          /\ c.fn = "fetch_producto_by_id" /\ c.ret = "None"
        IN (failedWrite \/ lostReread)
           => /\ i = Len(calls[r])
              /\ Done(r)
              /\ Status(r) = 500
              /\ resp[r].detail \in GenericMessages
              /\ resp[r].content = <<>>

C7_Witness ==
    \E r \in Reqs :
        /\ kind[r] = "crear" /\ Len(calls[r]) = 2
        /\ calls[r][1].ret = "id" /\ calls[r][2].ret = "None"
        /\ Status(r) = 500

\* the store failed a write whose row was there
StoreFault(r) ==
    \E i \in 1..Len(calls[r]) :
        /\ calls[r][i].fn \in WriteCalls
        /\ calls[r][i].found /\ calls[r][i].ret \in {"0", "False"}

NormalForm(b) ==
    [nombre |-> Strip(b.nombre),
     descripcion |-> IF "descripcion" \notin DOMAIN b THEN NoneVal
                     ELSE IF b.descripcion = NoneVal THEN NoneVal
                     ELSE IF Blank(b.descripcion) THEN NoneVal
                     ELSE Strip(b.descripcion),
     precio |-> b.precio, stock |-> b.stock,
     categoria |-> Strip(b.categoria),
     codigo_sku |-> Upper(Strip(b.codigo_sku)),
     activo |-> IF "activo" \in DOMAIN b THEN b.activo ELSE TRUE]

\* the entity with the given id and the fields f
Entity(id, f) ==
    [id_producto |-> id, nombre |-> f.nombre, descripcion |-> f.descripcion,
     precio |-> f.precio, stock |-> f.stock, categoria |-> f.categoria,
     codigo_sku |-> f.codigo_sku, activo |-> f.activo]

\* request r wrote the row of id (a call that reported success on a row
\* that was there)
Wrote(r, id) ==
    /\ kind[r] \in {"actualizar", "eliminar"} /\ producto_id[r] = id
    /\ \E i \in 1..Len(calls[r]) :
          /\ calls[r][i].fn \in {"update_producto", "delete_producto"}
          /\ calls[r][i].ret = "True" /\ calls[r][i].found

\* C3: a Create with a valid payload, whose insert the store performed and
\* whose new row no other request wrote, responds 201 with the entity of the
\* new id (> 0) and the normal form of the payload, and a Get of that id
\* that finds the row returns the same entity.
C3_CreateRoundTrip ==
    \A r \in Reqs :
        (/\ kind[r] = "crear" /\ Done(r)
         /\ ProductoBase(body[r]).ok
         /\ calls[r][1].ret = "id"
         /\ \A q \in Reqs \ {r} : ~Wrote(q, nuevo_id[r]))
        => /\ Status(r) = 201
           /\ nuevo_id[r] > 0
           /\ resp[r].content = <<Entity(nuevo_id[r], NormalForm(body[r]))>>
           /\ \A g \in Reqs :
                 (/\ kind[g] = "obtener" /\ producto_id[g] = nuevo_id[r]
                  /\ Done(g) /\ ~CheckFoundNothing(g))
                 => (Status(g) = 200 /\ resp[g].content = resp[r].content)

\* the requests whose update_producto replaced the row of id
Updaters(id) == {w \in Reqs : kind[w] = "actualizar" /\ Wrote(w, id)}

\* C4 as claimed: an Update that responds 200 returns the requested id with
\* the normal form of its own payload.
C4_OwnPayload ==
    \A r \in Reqs :
        (kind[r] = "actualizar" /\ Status(r) = 200)
        => resp[r].content = <<Entity(producto_id[r], NormalForm(body[r]))>>

\* C4 amended: an Update that responds 200 returns the requested id with the
\* normal form of the payload of an Update of that id that has written: its
\* own when no other Update of the id has written.
C4_SomeWriterPayload ==
    \A r \in Reqs :
        (kind[r] = "actualizar" /\ Status(r) = 200)
        => /\ r \in Updaters(producto_id[r])
           /\ \E w \in Updaters(producto_id[r]) :
                 resp[r].content = <<Entity(producto_id[r], NormalForm(body[w]))>>
           /\ Updaters(producto_id[r]) = {r} =>
                 resp[r].content = <<Entity(producto_id[r], NormalForm(body[r]))>>

C4_Witness ==
    \E r \in Reqs : \E w \in Reqs \ {r} :
        /\ kind[r] = "actualizar" /\ Status(r) = 200
        /\ w \in Updaters(producto_id[r])
        /\ resp[r].content = <<Entity(producto_id[r], NormalForm(body[w]))>>
        /\ resp[r].content # <<Entity(producto_id[r], NormalForm(body[r]))>>

\* the body of r has been validated / has passed validation
Validated(r) == HasBody(kind[r]) /\ pc[r] # "validate"
Accepted(r) == Validated(r) /\ Status(r) # 422

\* the rules C5 does not speak of
OtherRulesOK(b) ==
    b.precio >= 0 /\ b.stock >= 0 /\ FieldSku(b.codigo_sku).ok

DescripcionOf(b) ==
    IF "descripcion" \in DOMAIN b THEN b.descripcion ELSE NoneVal

\* the text rules with the limits applied to the trimmed value
TrimmedTextOK(b) ==
    /\ Len(Strip(b.nombre)) >= 1 /\ Len(Strip(b.nombre)) <= 80
    /\ Len(Strip(b.categoria)) >= 1 /\ Len(Strip(b.categoria)) <= 50
    /\ DescripcionOf(b) = NoneVal \/ Len(Strip(DescripcionOf(b))) <= 255

\* the text rules with the limits applied to the value as sent
RawTextOK(b) ==
    /\ Len(b.nombre) >= 1 /\ Len(b.nombre) <= 80 /\ ~Blank(b.nombre)
    /\ Len(b.categoria) >= 1 /\ Len(b.categoria) <= 50 /\ ~Blank(b.categoria)
    /\ DescripcionOf(b) = NoneVal \/ Len(DescripcionOf(b)) <= 255

\* C5 as claimed: a payload passes the text rules exactly when the trimmed
\* nombre has 1 to 80 characters, the trimmed categoria 1 to 50 and the
\* trimmed descripcion at most 255.
C5_TrimmedLimits ==
    \A r \in Reqs :
        (Validated(r) /\ Required \subseteq DOMAIN body[r] /\ OtherRulesOK(body[r]))
        => (Accepted(r) <=> TrimmedTextOK(body[r]))

\* C5 amended: a payload passes the text rules exactly when nombre as sent
\* has 1 to 80 characters and is not blank, categoria as sent 1 to 50 and is
\* not blank, and descripcion as sent at most 255: the whitespace around a
\* value counts towards its limit.
C5_RawLimits ==
    \A r \in Reqs :
        (Validated(r) /\ Required \subseteq DOMAIN body[r] /\ OtherRulesOK(body[r]))
        => (Accepted(r) <=> RawTextOK(body[r]))

C5_Witness ==
    \E r \in Reqs :
        /\ Validated(r) /\ Required \subseteq DOMAIN body[r]
        /\ OtherRulesOK(body[r])
        /\ Len(body[r].nombre) = 81 /\ Len(Strip(body[r].nombre)) = 80
        /\ Status(r) = 422

\* the strict shape of an entity
Trimmed(v) == v # <<>> /\ v[1] \notin Whitespace /\ v[Len(v)] \notin Whitespace

StrictShape(e) ==
    /\ e.precio >= 0 /\ e.stock >= 0
    /\ Trimmed(e.nombre) /\ Trimmed(e.categoria)
    /\ Trimmed(e.codigo_sku) /\ Range(e.codigo_sku) \cap {"a", "b", "sz"} = {}
    /\ e.descripcion = NoneVal \/ Trimmed(e.descripcion)

\* a stored row no normalization brings into the strict shape
Unfit(row) ==
    \/ row.precio.val < 0 \/ row.stock < 0
    \/ \E k \in {"nombre", "categoria", "codigo_sku"} :
          row[k] = NoneVal \/ Blank(row[k])

\* the step is a store read of r
Reads(r) ==
    /\ Len(calls'[r]) = Len(calls[r]) + 1
    /\ calls'[r][Len(calls'[r])].fn \in {"fetch_producto_by_id", "fetch_all_productos"}

\* the rows a read of r returns
RowsOf(r) ==
    IF kind[r] = "listar" THEN fetch_all_productos
    ELSE LET id == IF kind[r] = "crear" THEN nuevo_id[r] ELSE producto_id[r]
         IN IF id \in DOMAIN db THEN <<db[id]>> ELSE <<>>

\* C6: every entity in a success response of List, Get, Create or Update has
\* the strict shape; when a row read for the response cannot be brought
\* into it, the request ends in 500 and returns no entity at all.
C6_StrictResponses ==
    [][\A r \in Reqs :
          (/\ kind[r] \in {"listar", "obtener", "crear", "actualizar"}
           /\ ~Done(r) /\ Done(r)' /\ Reads(r))
          => /\ Status(r)' \in {200, 201} =>
                   \A e \in Range(resp'[r].content) : StrictShape(e)
             /\ (\E row \in Range(RowsOf(r)) : Unfit(row)) =>
                   (Status(r)' = 500 /\ resp'[r].content = <<>>)]_vars

C6_Witness ==
    \E r \in Reqs :
        /\ kind[r] = "obtener" /\ Status(r) = 200
        /\ producto_id[r] \in DOMAIN db
        /\ db[producto_id[r]].nombre # resp[r].content[1].nombre
        /\ StrictShape(resp[r].content[1])

\* a Delete of id has responded with success
DeletedOK(id) ==
    \E d \in Reqs : kind[d] = "eliminar" /\ producto_id[d] = id /\ Status(d) = 200

\* C8: once a Delete of an id has responded 200, the row never comes back,
\* every Get, Update or Delete that then runs its existence check on the id
\* ends at once with 404 and the id in its message (no update_producto, no
\* delete_producto), and every List that then runs omits the id.
C8_DeletedStaysDeleted ==
    [][/\ \A id \in DOMAIN db' : ~DeletedOK(id)'
       /\ \A r \in Reqs :
            (pc[r] = "handler" /\ pc'[r] # "handler")
            => /\ (/\ kind[r] \in {"obtener", "actualizar", "eliminar"}
                   /\ DeletedOK(producto_id[r]))
                  => /\ Done(r)' /\ Status(r)' = 404
                     /\ ToString(producto_id[r]) \in Range(resp'[r].detail)
                     /\ Len(calls'[r]) = 1
                     /\ calls'[r][1].fn = "fetch_producto_by_id"
               /\ kind[r] = "listar" =>
                     \A e \in Range(resp'[r].content) : ~DeletedOK(e.id_producto)]_vars

C8_Witness ==
    \E r \in Reqs :
        /\ kind[r] = "actualizar" /\ DeletedOK(producto_id[r])
        /\ calls[r] = <<Call("fetch_producto_by_id", "None", FALSE)>>
        /\ Status(r) = 404

\* C9: an Update that has passed its existence check and whose row is gone
\* before its re-read ends in 500, never 200 or 404, and the row stays gone.
C9_UpdateDeleteRace ==
    [][\A r \in Reqs :
          (/\ kind[r] = "actualizar" /\ pc[r] \in {"update", "reread"}
           /\ producto_id[r] \notin DOMAIN db)
          => /\ producto_id[r] \notin DOMAIN db'
             /\ pc'[r] # pc[r] =>
                   \/ Done(r)' /\ Status(r)' = 500
                   \/ pc[r] = "update" /\ pc'[r] = "reread"]_vars

C9_Witness ==
    \E r \in Reqs :
        /\ kind[r] = "actualizar" /\ Len(calls[r]) = 3
        /\ calls[r][2] = Call("update_producto", "True", FALSE)
        /\ calls[r][3].ret = "None"
        /\ Status(r) = 500

====
